---------------------------- MODULE Spec2Model ----------------------------
(***************************************************************************)
(* A model of goparse: the function catalog built by Func.ParseFunctions   *)
(* (parse.go) and driven by parseFunctions (main.go).                      *)
(*                                                                         *)
(* Text is modelled by TLA+ strings, byte for byte: a Go slice             *)
(* code[a:b] is SubSeq(code, a+1, b).  Syntax trees are records carrying   *)
(* the fields of the go/ast node types the program reads, with token.Pos   *)
(* values as integers.  A TLA+ string literal cannot hold a backquote:     *)
(* the model writes the byte ' where the program writes a backquote (the   *)
(* code fences and the terminator line); no source text of the model holds *)
(* either byte.  Log output is not modelled.                               *)
(***************************************************************************)
EXTENDS Integers, Sequences, FiniteSets, TLC

(***************************************************************************)
(* Bounds of the model.                                                    *)
(***************************************************************************)
MaxCalls == 3
MaxFiles == 3
MaxCallDepth == 2
MaxTypeDepth == 2

(***************************************************************************)
(* String helpers (package strings, path/filepath).                        *)
(***************************************************************************)
\* strings.Contains(s, substr)
Contains(s, substr) ==
    \E i \in 1..(Len(s) - Len(substr) + 1) : SubSeq(s, i, i + Len(substr) - 1) = substr

RECURSIVE Join(_, _)
\* strings.Join(elems, sep)
Join(elems, sep) ==
    IF Len(elems) = 0 THEN ""
    ELSE IF Len(elems) = 1 THEN elems[1]
    ELSE elems[1] \o sep \o Join(Tail(elems), sep)

RECURSIVE Concat(_)
\* The text a strings.Builder holds after one WriteString per element.
Concat(parts) ==
    IF Len(parts) = 0 THEN "" ELSE parts[1] \o Concat(Tail(parts))

\* filepath.Base(path), for the slash-separated, non-empty paths of the model.
Base(path) ==
    LET slashes == {i \in 1..Len(path) : SubSeq(path, i, i) = "/"}
        last == IF slashes = {} THEN 0 ELSE CHOOSE i \in slashes : \A j \in slashes : j <= i
    IN SubSeq(path, last + 1, Len(path))

(***************************************************************************)
(* go/ast nodes.  A node is a record: kind names its Go type, pos and end  *)
(* are what its Pos() and End() methods return, the other fields are the   *)
(* struct's.  Nil is a nil pointer or a nil interface value.               *)
(***************************************************************************)
Nil == [kind |-> "nil"]

\* The children of a node, in the order ast.Walk visits them (nil children
\* are not visited).
Children(n) ==
    LET opt(c) == IF c = Nil THEN <<>> ELSE <<c>>
    IN CASE n.kind = "File" -> <<n.Name>> \o n.Decls
         [] n.kind = "FuncDecl" ->
                opt(n.Doc) \o opt(n.Recv) \o <<n.Name>> \o <<n.Type>> \o opt(n.Body)
         [] n.kind = "CommentGroup" -> n.List
         [] n.kind = "FuncType" -> opt(n.Params) \o opt(n.Results)
         [] n.kind = "FieldList" -> n.List
         [] n.kind = "Field" -> n.Names \o <<n.Type>>
         [] n.kind = "StarExpr" -> <<n.X>>
         [] n.kind = "ArrayType" -> opt(n.Len) \o <<n.Elt>>
         [] n.kind = "MapType" -> <<n.Key, n.Value>>
         [] n.kind = "SelectorExpr" -> <<n.X, n.Sel>>
         [] n.kind = "Ellipsis" -> opt(n.Elt)
         [] n.kind = "BlockStmt" -> n.List
         [] n.kind = "ExprStmt" -> <<n.X>>
         [] n.kind = "IfStmt" -> <<n.Cond, n.Body>>
         [] n.kind = "CallExpr" -> <<n.Fun>> \o n.Args
         [] n.kind = "FuncLit" -> <<n.Type, n.Body>>
         [] n.kind = "BinaryExpr" -> <<n.X, n.Y>>
         [] OTHER -> <<>>

RECURSIVE Inspect(_)
\* The nodes ast.Inspect(n, f) hands to f, in order, when f always returns
\* true: depth-first, a node before its children.
Inspect(n) ==
    LET RECURSIVE All(_)
        All(cs) == IF Len(cs) = 0 THEN <<>> ELSE Inspect(cs[1]) \o All(Tail(cs))
    IN <<n>> \o All(Children(n))

RECURSIVE Shift(_, _)
\* The node n with every position moved d bytes to the right.
Shift(n, d) ==
    LET sh(c) == Shift(c, d)
        RECURSIVE all(_)
        all(cs) == IF Len(cs) = 0 THEN <<>> ELSE <<Shift(cs[1], d)>> \o all(Tail(cs))
        m == IF n = Nil THEN Nil ELSE [n EXCEPT !.pos = @ + d, !.end = @ + d]
    IN CASE n = Nil -> Nil
         [] n.kind = "File" -> [m EXCEPT !.Name = sh(@), !.Decls = all(@)]
         [] n.kind = "FuncDecl" ->
                [m EXCEPT !.Doc = sh(@), !.Recv = sh(@), !.Name = sh(@),
                          !.Type = sh(@), !.Body = sh(@)]
         [] n.kind = "CommentGroup" -> [m EXCEPT !.List = all(@)]
         [] n.kind = "FuncType" -> [m EXCEPT !.Params = sh(@), !.Results = sh(@)]
         [] n.kind = "FieldList" -> [m EXCEPT !.List = all(@)]
         [] n.kind = "Field" -> [m EXCEPT !.Names = all(@), !.Type = sh(@)]
         [] n.kind = "StarExpr" -> [m EXCEPT !.X = sh(@)]
         [] n.kind = "ArrayType" -> [m EXCEPT !.Len = sh(@), !.Elt = sh(@)]
         [] n.kind = "MapType" -> [m EXCEPT !.Key = sh(@), !.Value = sh(@)]
         [] n.kind = "SelectorExpr" -> [m EXCEPT !.X = sh(@), !.Sel = sh(@)]
         [] n.kind = "Ellipsis" -> [m EXCEPT !.Elt = sh(@)]
         [] n.kind = "BlockStmt" -> [m EXCEPT !.List = all(@)]
         [] n.kind = "ExprStmt" -> [m EXCEPT !.X = sh(@)]
         [] n.kind = "IfStmt" -> [m EXCEPT !.Cond = sh(@), !.Body = sh(@)]
         [] n.kind = "CallExpr" -> [m EXCEPT !.Fun = sh(@), !.Args = all(@)]
         [] n.kind = "FuncLit" -> [m EXCEPT !.Type = sh(@), !.Body = sh(@)]
         [] n.kind = "BinaryExpr" -> [m EXCEPT !.X = sh(@), !.Y = sh(@)]
         [] OTHER -> m

(***************************************************************************)
(* What parser.ParseFile makes of source text.  A fragment pairs a piece   *)
(* of source text with the node the parser builds for it, positions        *)
(* counted from the fragment's first byte: in the fresh token.FileSet that *)
(* parseCode creates the file's base is 1, so the byte at offset k has     *)
(* token.Pos k+1.                                                          *)
(***************************************************************************)
\* calls lists what the fragment's author wrote: the text of every call
\* expression in it, an enclosing call before the calls inside it, then from
\* left to right.
Frag(text, fields) ==
    [text |-> text, node |-> fields @@ [pos |-> 1, end |-> Len(text) + 1], calls |-> <<>>]

WithCalls(frag, calls) == [frag EXCEPT !.calls = calls]

\* No source text, no node.
NilF == [text |-> "", node |-> Nil, calls |-> <<>>]

RECURSIVE Flatten(_)
\* The concatenation of a sequence of sequences.
Flatten(ss) == IF Len(ss) = 0 THEN <<>> ELSE ss[1] \o Flatten(Tail(ss))

CallsOf(frags) == Flatten([i \in DOMAIN frags |-> frags[i].calls])

Texts(frags) == [i \in DOMAIN frags |-> frags[i].text]

RECURSIVE Nodes(_, _, _)
\* The nodes of frags, written one after another with sep between them,
\* the first one starting after `start` bytes.
Nodes(frags, sep, start) ==
    IF Len(frags) = 0 THEN <<>>
    ELSE <<Shift(frags[1].node, start)>>
         \o Nodes(Tail(frags), sep, start + Len(frags[1].text) + Len(sep))

\* Type expressions, as gofmt prints them.
IdentF(name) == Frag(name, [kind |-> "Ident", Name |-> name])
StarF(x) == Frag("*" \o x.text, [kind |-> "StarExpr", X |-> Shift(x.node, 1)])
ArrayF(len, elt) ==
    Frag("[" \o len.text \o "]" \o elt.text,
         [kind |-> "ArrayType", Len |-> Shift(len.node, 1),
          Elt |-> Shift(elt.node, Len(len.text) + 2)])
MapF(key, value) ==
    Frag("map[" \o key.text \o "]" \o value.text,
         [kind |-> "MapType", Key |-> Shift(key.node, 4),
          Value |-> Shift(value.node, Len(key.text) + 5)])
SelectorF(x, sel) ==
    Frag(x.text \o "." \o sel,
         [kind |-> "SelectorExpr", X |-> x.node,
          Sel |-> Shift(IdentF(sel).node, Len(x.text) + 1)])
BasicLitF(value) == Frag(value, [kind |-> "BasicLit", Value |-> value])
EllipsisF(elt) == Frag("..." \o elt.text, [kind |-> "Ellipsis", Elt |-> Shift(elt.node, 3)])
InterfaceF == Frag("interface{}", [kind |-> "InterfaceType"])

\* A parameter, result or receiver group: names, then the type they share.
FieldF(names, type) ==
    LET ns == [i \in DOMAIN names |-> IdentF(names[i])]
        head == Join(names, ", ") \o (IF Len(names) = 0 THEN "" ELSE " ")
    IN Frag(head \o type.text,
            [kind |-> "Field", Names |-> Nodes(ns, ", ", 0),
             Type |-> Shift(type.node, Len(head))])

\* A parenthesized field list.
FieldListF(fs) ==
    Frag("(" \o Join(Texts(fs), ", ") \o ")",
         [kind |-> "FieldList", List |-> Nodes(fs, ", ", 1)])

\* A single unnamed result written without parentheses.
BareResultF(type) ==
    Frag(type.text, [kind |-> "FieldList", List |-> <<FieldF(<<>>, type).node>>])

\* Expressions and statements of a function body.  lpad, sep and rpad are
\* the white space the source has after "(", between arguments (after the
\* comma) and before ")".
CallF(fun, lpad, args, sep, rpad) ==
    LET text == fun.text \o "(" \o lpad \o Join(Texts(args), "," \o sep) \o rpad \o ")"
    IN WithCalls(Frag(text,
                      [kind |-> "CallExpr", Fun |-> fun.node,
                       Args |-> Nodes(args, "," \o sep, Len(fun.text) + 1 + Len(lpad))]),
                 <<text>> \o fun.calls \o CallsOf(args))
BinaryF(x, op, y) ==
    WithCalls(Frag(x.text \o op \o y.text,
                   [kind |-> "BinaryExpr", X |-> x.node,
                    Y |-> Shift(y.node, Len(x.text) + Len(op))]),
              x.calls \o y.calls)
ExprStmtF(x) == WithCalls(Frag(x.text, [kind |-> "ExprStmt", X |-> x.node]), x.calls)
\* A block: open is the white space after "{" and before every further
\* statement, close the white space before "}".
BlockF(stmts, open, close) ==
    IF Len(stmts) = 0
    THEN Frag("{}", [kind |-> "BlockStmt", List |-> <<>>])
    ELSE WithCalls(Frag("{" \o open \o Join(Texts(stmts), open) \o close \o "}",
                        [kind |-> "BlockStmt", List |-> Nodes(stmts, open, 1 + Len(open))]),
                   CallsOf(stmts))
FuncTypeF(params, results) ==
    Frag("func" \o params.text \o (IF results = NilF THEN "" ELSE " " \o results.text),
         [kind |-> "FuncType", Params |-> Shift(params.node, 4),
          Results |-> Shift(results.node, 5 + Len(params.text))])
FuncLitF(body) ==
    LET type == FuncTypeF(FieldListF(<<>>), NilF)
    IN WithCalls(Frag(type.text \o " " \o body.text,
                      [kind |-> "FuncLit", Type |-> type.node,
                       Body |-> Shift(body.node, Len(type.text) + 1)]),
                 body.calls)
IfF(cond, body) ==
    WithCalls(Frag("if " \o cond.text \o " " \o body.text,
                   [kind |-> "IfStmt", Cond |-> Shift(cond.node, 3),
                    Body |-> Shift(body.node, Len(cond.text) + 4)]),
              cond.calls \o body.calls)

\* Declarations.  doc is the sequence of the doc comment's lines; the
\* comment is not part of the declaration's extent: FuncDecl.Pos() is the
\* position of the func keyword, FuncDecl.End() the end of the body, or of
\* the signature when the declaration has no body.  decl is the text from
\* the func keyword to the end of the declaration.
FuncDeclF(doc, recv, name, params, results, body) ==
    LET comments == [i \in DOMAIN doc |-> Frag(doc[i], [kind |-> "Comment", Text |-> doc[i]])]
        docText == Concat([i \in DOMAIN doc |-> doc[i] \o "\n"])
        docNode == IF Len(doc) = 0 THEN Nil
                   ELSE [kind |-> "CommentGroup", List |-> Nodes(comments, "\n", 0),
                         pos |-> 1, end |-> Len(docText)]
        head == "func " \o (IF recv = NilF THEN "" ELSE recv.text \o " ")
        sig == params.text \o (IF results = NilF THEN "" ELSE " " \o results.text)
        decl == head \o name \o sig \o (IF body = NilF THEN "" ELSE " " \o body.text)
        d == Len(docText)
    IN [text |-> docText \o decl,
        node |-> [kind |-> "FuncDecl",
                  Doc |-> docNode,
                  Recv |-> Shift(recv.node, d + 5),
                  Name |-> Shift(IdentF(name).node, d + Len(head)),
                  Type |-> [kind |-> "FuncType",
                            Params |-> Shift(params.node, d + Len(head) + Len(name)),
                            Results |-> Shift(results.node,
                                              d + Len(head) + Len(name) + Len(params.text) + 1),
                            pos |-> d + 1,
                            end |-> d + Len(head) + Len(name) + Len(sig) + 1],
                  Body |-> Shift(body.node, d + Len(head) + Len(name) + Len(sig) + 1),
                  pos |-> d + 1,
                  end |-> d + Len(decl) + 1],
        calls |-> body.calls,
        isFunc |-> TRUE, name |-> name, doc |-> doc, decl |-> decl,
        recv |-> recv, params |-> params, results |-> results]

\* A declaration that is no function: a var, const, type or import.
GenDeclF(text) == Frag(text, [kind |-> "GenDecl"]) @@ [isFunc |-> FALSE]

\* A source file: the package clause, then the declarations.  funcs lists
\* the function declarations written in the file, in source order.
FileF(pkg, decls) ==
    LET head == "package " \o pkg \o "\n\n"
    IN [text |-> head \o Concat([i \in DOMAIN decls |-> decls[i].text \o "\n"]),
        node |-> [kind |-> "File", Name |-> Shift(IdentF(pkg).node, 8),
                  Decls |-> Nodes(decls, "\n", Len(head)),
                  pos |-> 1, end |-> Len(head) + Len(Concat([i \in DOMAIN decls |-> decls[i].text \o "\n"]))],
        pkg |-> pkg,
        funcs |-> SelectSeq(decls, LAMBDA d : d.isFunc)]

(***************************************************************************)
(* parse.go                                                                *)
(***************************************************************************)
\* code[lo:hi]
Slice(code, lo, hi) == SubSeq(code, lo + 1, hi)

RECURSIVE expr(_)
\* expr rendering a pointer type as the type it points to.
exprWithoutStar(e) ==
    CASE e.kind = "StarExpr" -> expr(e.X)
      [] e.kind = "Ident" -> e.Name
      [] e.kind = "ArrayType" ->
            IF e.Len # Nil
            THEN "[" \o expr(e.Len) \o "]" \o expr(e.Elt)
            ELSE "[]" \o expr(e.Elt)
      [] e.kind = "MapType" -> "map[" \o expr(e.Key) \o "]" \o expr(e.Value)
      [] e.kind = "SelectorExpr" -> expr(e.X) \o "." \o expr(e.Sel)
      [] OTHER -> ""

expr(e) ==
    CASE e.kind = "StarExpr" -> "*" \o expr(e.X)
      [] e.kind = "Ident" -> e.Name
      [] e.kind = "ArrayType" ->
            IF e.Len # Nil
            THEN "[" \o expr(e.Len) \o "]" \o expr(e.Elt)
            ELSE "[]" \o expr(e.Elt)
      [] e.kind = "MapType" -> "map[" \o expr(e.Key) \o "]" \o expr(e.Value)
      [] e.kind = "SelectorExpr" -> expr(e.X) \o "." \o expr(e.Sel)
      [] OTHER -> ""

fields(fl) ==
    LET part(f) == Join([i \in DOMAIN f.Names |-> f.Names[i].Name], ", ")
                       \o " " \o expr(f.Type)
    IN Join([i \in DOMAIN fl.List |-> part(fl.List[i])], ", ")

\* writeComments running the comment's lines together.
writeCommentsNoBreak(doc) ==
    IF doc # Nil THEN Concat([i \in DOMAIN doc.List |-> doc.List[i].Text]) ELSE ""

writeComments(doc) ==
    IF doc # Nil THEN Concat([i \in DOMAIN doc.List |-> doc.List[i].Text \o "\n"]) ELSE ""

writeParameters(params) ==
    IF params # Nil THEN "##Parameters " \o fields(params) \o "\n" ELSE ""

\* writeResults writing its label also when there is no result list.
writeResultsAlways(results) ==
    "##Return " \o (IF results # Nil THEN fields(results) ELSE "") \o "\n"

writeResults(results) ==
    IF results # Nil THEN "##Return " \o fields(results) \o "\n" ELSE ""

\* callLine taking token.Pos values for byte offsets.
callLineFromPos(call, code) == "  " \o Slice(code, call.pos, call.end) \o "\n"

\* The line written for one call expression.
callLine(call, code) == "  " \o Slice(code, call.pos - 1, call.end - 1) \o "\n"

writeFunctionCalls(fn, code) ==
    LET calls == SelectSeq(Inspect(fn), LAMBDA n : n.kind = "CallExpr")
    IN "## Function calls from other packages\n\n"
       \o "'''go\n"
       \o Concat([i \in DOMAIN calls |-> callLine(calls[i], code)])
       \o "'''\n"

\* writeFunctionBody starting at the doc comment when there is one.
writeFunctionBodyWithDoc(fn, code) ==
    LET from == IF fn.Doc # Nil THEN fn.Doc.pos ELSE fn.pos
    IN "####Function Body of function " \o fn.Name.Name \o "\n\n"
       \o "'''go\n"
       \o Slice(code, from - 1, fn.end - 1)
       \o "'''\n"
       \o Slice(code, from - 1, fn.end - 1)

writeFunctionBody(fn, code) ==
    "####Function Body of function " \o fn.Name.Name \o "\n\n"
    \o "'''go\n"
    \o Slice(code, fn.pos - 1, fn.end - 1)
    \o "'''\n"
    \o Slice(code, fn.pos - 1, fn.end - 1)

\* The block written to the file's builder, which is also the value returned.
describeFunctionDeclaration(fn, code, includeBody) ==
    writeComments(fn.Doc)
    \o "## " \o fn.Name.Name \o "\n\n"
    \o (IF fn.Recv # Nil THEN "## Receiver\n\n" \o fields(fn.Recv) \o "\n\n" ELSE "")
    \o writeParameters(fn.Type.Params)
    \o writeResults(fn.Type.Results)
    \o writeFunctionCalls(fn, code)
    \o (IF includeBody THEN writeFunctionBody(fn, code) ELSE "")
    \o "'###End of function with name " \o fn.Name.Name \o "  ###'\n\n"

\* isTestFile looking for the marker in the path instead of the file name.
isTestFileByPath(p) == Contains(p.FilePath, "_test")

\* Whether buildFileDescription takes the file for a test file.
isTestFile(p) == Contains(p.FileName, "_test")

\* <<description, funcDescriptions, testFuncDescriptions>>; a nil slice is
\* the empty sequence.
buildFileDescription(p, file, code) ==
    LET test == isTestFile(p)
        startFuncWord == IF test THEN "##Start of go test file " \o p.FilePath \o " \n"
                         ELSE "##Start of go file " \o p.FilePath \o " \n"
        endFuncWord == IF test THEN "----- End of go test file " \o p.FilePath \o " ------- \n"
                       ELSE "----- End of go file " \o p.FilePath \o " ------- \n"
        funcWord == IF test THEN "##Test Functions\n" ELSE "##Functions\n"
        decls == SelectSeq(Inspect(file), LAMBDA n : n.kind = "FuncDecl")
        funcStr == [i \in DOMAIN decls |->
                       describeFunctionDeclaration(decls[i], code, p.IncludeBody)]
        objs == [i \in DOMAIN decls |->
                    [Name |-> decls[i].Name.Name, Doc |-> funcStr[i],
                     Package |-> file.Name.Name, IsTestFunction |-> test]]
    IN << startFuncWord
          \o "###File path: " \o p.FilePath \o " #######\n"
          \o "###File name: " \o p.FileName \o " #######\n"
          \o "## Package name: " \o file.Name.Name \o "\n"
          \o funcWord
          \o Concat(funcStr)
          \o endFuncWord,
          IF test THEN <<>> ELSE objs,
          IF test THEN objs ELSE <<>> >>

(***************************************************************************)
(* The files of the model's project.                                       *)
(***************************************************************************)
OnePlusOne == BinaryF(BasicLitF("1"), "+", BasicLitF("1"))
Stmts(calls) == BlockF([i \in DOMAIN calls |-> ExprStmtF(calls[i])], "\n\t", "\n")

\* // checks addition
\* func TestAdd(t *T) {
\*         assert(1+1)
\* }
TestAddF ==
    FuncDeclF(<<"// checks addition">>, NilF, "TestAdd",
              FieldListF(<<FieldF(<<"t">>, StarF(IdentF("T")))>>), NilF,
              Stmts(<<CallF(IdentF("assert"), "", <<OnePlusOne>>, " ", "")>>))

\* func Add(a, b int, c string) int { log( a,  b ) }
AddF ==
    FuncDeclF(<<"// Add adds.", "// It logs.">>, NilF, "Add",
              FieldListF(<<FieldF(<<"a", "b">>, IdentF("int")),
                           FieldF(<<"c">>, IdentF("string"))>>),
              BareResultF(IdentF("int")),
              BlockF(<<ExprStmtF(CallF(IdentF("log"), " ", <<IdentF("a"), IdentF("b")>>,
                                       "  ", " "))>>, " ", " "))

\* func (s *Store) Get(k string, opts ...int) ([]byte, error) {
\*         func() { f( g(k) ) }()
\*         if ok(k) {
\*                 h()
\*         }
\* }
GetF ==
    FuncDeclF(<<>>, FieldListF(<<FieldF(<<"s">>, StarF(IdentF("Store")))>>), "Get",
              FieldListF(<<FieldF(<<"k">>, IdentF("string")),
                           FieldF(<<"opts">>, EllipsisF(IdentF("int")))>>),
              FieldListF(<<FieldF(<<>>, ArrayF(NilF, IdentF("byte"))),
                           FieldF(<<>>, IdentF("error"))>>),
              BlockF(<<ExprStmtF(CallF(FuncLitF(BlockF(
                           <<ExprStmtF(CallF(IdentF("f"), " ",
                                 <<CallF(IdentF("g"), "", <<IdentF("k")>>, " ", "")>>,
                                 " ", " "))>>, " ", " ")), "", <<>>, " ", "")),
                       IfF(CallF(IdentF("ok"), "", <<IdentF("k")>>, " ", ""),
                           BlockF(<<ExprStmtF(CallF(IdentF("h"), "", <<>>, " ", ""))>>,
                                  "\n\t\t", "\n\t"))>>,
                     "\n\t", "\n"))

\* func helper() {}
HelperF == FuncDeclF(<<>>, NilF, "helper", FieldListF(<<>>), NilF, BlockF(<<>>, "", ""))

MathTestFile == FileF("math", <<TestAddF>>)
LibFile == FileF("lib", <<GenDeclF("var N = 3"), AddF, GetF>>)
UtilTestFile == FileF("util", <<HelperF, GenDeclF("type T struct{}"), TestAddF>>)
EmptyFile == FileF("lib", <<GenDeclF("const K = 1")>>)
ToolFile == FileF("tool", <<HelperF>>)

\* Text the parser rejects.
BadFile == [text |-> "package lib\n\nfunc {\n", node |-> Nil, pkg |-> "lib", funcs |-> <<>>]

\* The files on disk, each with what the parser makes of its text; there is
\* no file "gone.go".
Disk ==
    [path \in {"math_test.go", "lib.go", "pkg/util_test.go", "empty.go",
               "x_test/tool.go", "bad.go"} |->
        CASE path = "math_test.go" -> MathTestFile
          [] path = "lib.go" -> LibFile
          [] path = "pkg/util_test.go" -> UtilTestFile
          [] path = "empty.go" -> EmptyFile
          [] path = "x_test/tool.go" -> ToolFile
          [] path = "bad.go" -> BadFile]

Paths == {"math_test.go", "lib.go", "pkg/util_test.go", "empty.go",
          "x_test/tool.go", "bad.go", "gone.go"}

\* The project walk's Param for a path (main.go).
ParamOf(goFile) ==
    [FilePath |-> goFile, FileName |-> Base(goFile), IncludeBody |-> FALSE]

\* The Params handed to ParseFunctions: the walk's, and one a caller of the
\* method may build, which includes bodies and names the file otherwise.
Params ==
    {ParamOf(path) : path \in Paths}
    \cup {[FilePath |-> "lib.go", FileName |-> "lib_test.go", IncludeBody |-> TRUE]}

(***************************************************************************)
(* parse.go: reading, parsing, and the catalog.                            *)
(***************************************************************************)
VARIABLES
    FullDescriptions,          \* Func.FullDescriptions
    functionDescriptions,      \* Func.functionDescriptions
    testFunctionDescriptions,  \* Func.testFunctionDescriptions
    calls,                     \* the Params ParseFunctions was called with, in order
    goFiles,                   \* parseFunctions: its argument
    idx,                       \* parseFunctions: the index of the next file
    pc,                        \* "api" | "loop", "done" | "build", "built"
    disk,                      \* the file system, and the parser's reading of each file
    input,                     \* buildFileDescription alone: its arguments
    output                     \* buildFileDescription alone: its result

\* os.Open and io.ReadAll
readFile(filePath) ==
    IF filePath \in DOMAIN disk
    THEN [err |-> FALSE, code |-> disk[filePath].text]
    ELSE [err |-> TRUE, code |-> ""]

\* parser.ParseFile on a fresh token.FileSet
parseCode(fileName, code) ==
    LET read == {path \in DOMAIN disk : disk[path].text = code /\ disk[path].node # Nil}
    IN IF read # {}
       THEN [err |-> FALSE, file |-> disk[CHOOSE path \in read : TRUE].node]
       ELSE [err |-> TRUE, file |-> Nil]

func == <<FullDescriptions, functionDescriptions, testFunctionDescriptions>>
vars == <<FullDescriptions, functionDescriptions, testFunctionDescriptions,
          calls, goFiles, idx, pc, disk, input, output>>

\* Func{}
EmptyFunc ==
    /\ FullDescriptions = <<>>
    /\ functionDescriptions = <<>>
    /\ testFunctionDescriptions = <<>>

\* ParseFunctions extending the test records with the ordinary ones.
ParseFunctionsSameList(p) ==
    LET r == readFile(p.FilePath)
        q == parseCode(p.FileName, r.code)
        d == buildFileDescription(p, q.file, r.code)
    IN /\ IF r.err \/ q.err
          THEN UNCHANGED func
          ELSE /\ FullDescriptions' = Append(FullDescriptions, d[1])
               /\ functionDescriptions' = functionDescriptions \o d[2]
               /\ testFunctionDescriptions' = testFunctionDescriptions \o d[2]
       /\ calls' = Append(calls, p)

\* ParseFunctions leaving out a file whose report the catalog already holds.
ParseFunctionsOnce(p) ==
    LET r == readFile(p.FilePath)
        q == parseCode(p.FileName, r.code)
        d == buildFileDescription(p, q.file, r.code)
    IN /\ IF r.err \/ q.err \/ \E i \in DOMAIN FullDescriptions : FullDescriptions[i] = d[1]
          THEN UNCHANGED func
          ELSE /\ FullDescriptions' = Append(FullDescriptions, d[1])
               /\ functionDescriptions' = functionDescriptions \o d[2]
               /\ testFunctionDescriptions' = testFunctionDescriptions \o d[3]
       /\ calls' = Append(calls, p)

\* func (f *Func) ParseFunctions(p Param)
ParseFunctions(p) ==
    LET r == readFile(p.FilePath)
        q == parseCode(p.FileName, r.code)
        d == buildFileDescription(p, q.file, r.code)
    IN /\ IF r.err \/ q.err
          THEN UNCHANGED func
          ELSE /\ FullDescriptions' = Append(FullDescriptions, d[1])
               /\ functionDescriptions' = functionDescriptions \o d[2]
               /\ testFunctionDescriptions' = testFunctionDescriptions \o d[3]
       /\ calls' = Append(calls, p)

\* A caller holding a Func calls the method.
Call(p) ==
    /\ pc = "api"
    /\ Len(calls) < MaxCalls
    /\ ParseFunctions(p)
    /\ UNCHANGED <<goFiles, idx, pc, disk, input, output>>

Init ==
    /\ EmptyFunc
    /\ calls = <<>>
    /\ goFiles = <<>>
    /\ idx = 1
    /\ pc = "api"
    /\ disk = Disk
    /\ input = Nil
    /\ output = Nil

Next == \E p \in Params : Call(p)

Spec == Init /\ [][Next]_vars

(***************************************************************************)
(* main.go: parseFunctions(goFiles).                                       *)
(***************************************************************************)
SeqsUpTo(S, n) == UNION {[1..k -> S] : k \in 0..n}

\* The loop giving up at the first file that cannot be read or parsed.
IterateUntilFailure ==
    /\ pc = "loop"
    /\ idx <= Len(goFiles)
    /\ ParseFunctions(ParamOf(goFiles[idx]))
    /\ idx' = IF goFiles[idx] \in DOMAIN disk /\ disk[goFiles[idx]].node # Nil
              THEN idx + 1 ELSE Len(goFiles) + 1
    /\ UNCHANGED <<goFiles, pc, disk, input, output>>

\* The body of the range loop, for goFiles[idx].
Iterate ==
    /\ pc = "loop"
    /\ idx <= Len(goFiles)
    /\ ParseFunctions(ParamOf(goFiles[idx]))
    /\ idx' = idx + 1
    /\ UNCHANGED <<goFiles, pc, disk, input, output>>

\* return funcDescriptions
Return ==
    /\ pc = "loop"
    /\ idx > Len(goFiles)
    /\ pc' = "done"
    /\ UNCHANGED <<func, calls, goFiles, idx, disk, input, output>>

InitRun ==
    /\ EmptyFunc
    /\ calls = <<>>
    /\ goFiles \in SeqsUpTo(Paths, MaxFiles)
    /\ idx = 1
    /\ pc = "loop"
    /\ disk = Disk
    /\ input = Nil
    /\ output = Nil

NextRun == Iterate \/ Return

SpecRun == InitRun /\ [][NextRun]_vars

(***************************************************************************)
(* buildFileDescription alone, on one-function files drawn from bounded    *)
(* sets of signatures and bodies.                                          *)
(***************************************************************************)
RECURSIVE Types(_)
\* The type expressions of depth at most d.
Types(d) ==
    IF d = 0 THEN {IdentF("int"), IdentF("T"), InterfaceF}
    ELSE LET S == Types(d - 1)
         IN S \cup {StarF(t) : t \in S}
              \cup {ArrayF(l, t) : l \in {NilF, BasicLitF("3"), IdentF("N")}, t \in S}
              \cup {MapF(IdentF("string"), t) : t \in S}
              \cup {MapF(t, IdentF("int")) : t \in S}
              \cup {SelectorF(IdentF("pkg"), "T")}

\* White space in a call's parentheses: gofmt's, padded, and one argument
\* per line.
Styles ==
    {[l |-> "", s |-> " ", r |-> ""],
     [l |-> " ", s |-> "  ", r |-> " "],
     [l |-> "\n\t\t", s |-> "\n\t\t", r |-> ",\n\t"]}

Atoms == {IdentF("x"), OnePlusOne}

RECURSIVE Calls(_)
\* The calls nested at most d deep.
Calls(d) ==
    IF d = 0 THEN {}
    ELSE LET inner == Atoms \cup Calls(d - 1)
         IN {CallF(IdentF("f"), "", <<>>, "", "")}
              \cup {CallF(IdentF("f"), st.l, <<a>>, st.s, st.r) : st \in Styles, a \in inner}
              \cup {CallF(IdentF("f"), st.l, <<a, IdentF("y")>>, st.s, st.r) :
                        st \in Styles, a \in inner}

\* Bodies: no statement, one call, a call of a closure that calls, and a
\* call under a condition that calls, followed by another call.
Bodies ==
    {BlockF(<<>>, "", "")}
    \cup {Stmts(<<c>>) : c \in Calls(MaxCallDepth)}
    \cup {Stmts(<<CallF(FuncLitF(BlockF(<<ExprStmtF(c)>>, open, open)), "", <<>>, "", "")>>) :
              c \in Calls(1), open \in {" ", "\n\t\t"}}
    \cup {BlockF(<<IfF(CallF(IdentF("ok"), "", <<IdentF("x")>>, " ", ""),
                       BlockF(<<ExprStmtF(c)>>, "\n\t\t", "\n\t")),
                   ExprStmtF(CallF(IdentF("h"), "", <<>>, "", ""))>>, "\n\t", "\n") :
              c \in Calls(1)}

IntF == IdentF("int")

\* Parameter lists: one group of zero or two names over every type, a
\* variadic parameter, and lists of two groups.
ParamLists ==
    {FieldListF(<<FieldF(names, t)>>) :
         names \in {<<>>, <<"a", "b">>}, t \in Types(MaxTypeDepth)}
    \cup {FieldListF(<<FieldF(<<"xs">>, EllipsisF(t))>>) : t \in Types(1)}
    \cup {FieldListF(<<FieldF(<<"a", "b">>, IntF), FieldF(<<"c">>, t)>>) : t \in Types(1)}
    \cup {FieldListF(<<FieldF(<<>>, IntF), FieldF(<<>>, t)>>) : t \in Types(1)}

\* The function declarations: every body under func run(), every parameter
\* list over a one-call body, and the combinations of doc comment,
\* receiver, results and body (none for a declaration without one).
FuncInputs ==
    {FuncDeclF(<<>>, NilF, "run", FieldListF(<<>>), NilF, b) : b \in Bodies}
    \cup {FuncDeclF(<<>>, NilF, "run", ps, NilF,
                    Stmts(<<CallF(IdentF("f"), "", <<IdentF("x")>>, " ", "")>>)) :
              ps \in ParamLists}
    \cup {FuncDeclF(doc, recv, "Get", ps, res, b) :
              doc \in {<<>>, <<"// Get gets.">>, <<"// Get gets.", "// It may fail.">>},
              recv \in {NilF, FieldListF(<<FieldF(<<"s">>, StarF(IdentF("Store")))>>),
                        FieldListF(<<FieldF(<<>>, IdentF("Store"))>>)},
              ps \in {FieldListF(<<>>), FieldListF(<<FieldF(<<"k">>, IdentF("string"))>>)},
              res \in {NilF, BareResultF(IntF),
                       FieldListF(<<FieldF(<<"n">>, IntF), FieldF(<<"err">>, IdentF("error"))>>),
                       FieldListF(<<FieldF(<<>>, ArrayF(NilF, IdentF("byte"))),
                                    FieldF(<<>>, IdentF("error"))>>)},
              b \in {NilF, BlockF(<<>>, "", ""),
                     Stmts(<<CallF(IdentF("f"), " ", <<IdentF("k")>>, " ", " ")>>)}}

BuildParams ==
    {[FilePath |-> "dir/" \o name, FileName |-> name, IncludeBody |-> b] :
         name \in {"f.go", "f_test.go"}, b \in BOOLEAN}

\* The file a declaration is read from: it follows a variable declaration.
Inputs ==
    {[p |-> p, file |-> FileF("pkg", <<GenDeclF("var N = 3"), f>>)] :
         p \in BuildParams, f \in FuncInputs}

\* description, funcDescriptions, testFuncDescriptions := buildFileDescription(p, file, code)
Build ==
    /\ pc = "build"
    /\ output' = buildFileDescription(input.p, input.file.node, input.file.text)
    /\ pc' = "built"
    /\ UNCHANGED <<func, calls, goFiles, idx, disk, input>>

InitBuild ==
    /\ EmptyFunc
    /\ calls = <<>>
    /\ goFiles = <<>>
    /\ idx = 1
    /\ pc = "build"
    /\ disk = <<>>
    /\ input \in Inputs
    /\ output = Nil

NextBuild == Build

SpecBuild == InitBuild /\ [][NextBuild]_vars

(***************************************************************************)
(* What the claims speak of, read off the files as written and the calls   *)
(* as made, not off the catalog.                                           *)
(***************************************************************************)
\* The file at p.FilePath exists and is well-formed Go.
Succeeds(p) == p.FilePath \in DOMAIN disk /\ disk[p.FilePath].node # Nil

\* The function declarations written in the file at p.FilePath.
Written(p) == IF Succeeds(p) THEN disk[p.FilePath].funcs ELSE <<>>

\* The name has the marker "_test" somewhere in it.
Marked(name) == \E k \in 0..(Len(name) - 5) : SubSeq(name, k + 1, k + 5) = "_test"

NamesOf(records) == [i \in DOMAIN records |-> records[i].Name]
WrittenNames(p) == [i \in DOMAIN Written(p) |-> Written(p)[i].name]

RECURSIVE Sum(_)
Sum(ns) == IF Len(ns) = 0 THEN 0 ELSE ns[1] + Sum(Tail(ns))

IsPrefix(s, t) == Len(s) <= Len(t) /\ SubSeq(t, 1, Len(s)) = s
Suffix(s, from) == SubSeq(s, from + 1, Len(s))

\* C1: after any sequence of ParseFunctions calls, the two record lists
\* together hold as many records as there are function declarations in the
\* files that were read and parsed; a file that failed adds nothing.
C1_RecordCount ==
    Len(functionDescriptions) + Len(testFunctionDescriptions)
        = Sum([i \in DOMAIN calls |-> Len(Written(calls[i]))])

\* C1's case: three calls, one on a missing or malformed file, the others
\* on files that declare three functions or more between them.
C1_Witness ==
    /\ Len(calls) = 3
    /\ \E i \in DOMAIN calls : ~Succeeds(calls[i])
    /\ Len(functionDescriptions) >= 2
    /\ Len(testFunctionDescriptions) >= 1

\* C2: classification is by file name.  The functions of every processed
\* file whose FileName holds "_test" are, one record each, in
\* testFunctionDescriptions with IsTestFunction set, whatever their own
\* names; those of every other processed file are in functionDescriptions
\* with IsTestFunction clear; no record is in the wrong list.
C2_Classification ==
    LET expected(test) ==
            Flatten([i \in DOMAIN calls |->
                        IF Marked(calls[i].FileName) = test
                        THEN WrittenNames(calls[i]) ELSE <<>>])
    IN /\ NamesOf(functionDescriptions) = expected(FALSE)
       /\ NamesOf(testFunctionDescriptions) = expected(TRUE)
       /\ \A i \in DOMAIN functionDescriptions : ~functionDescriptions[i].IsTestFunction
       /\ \A i \in DOMAIN testFunctionDescriptions : testFunctionDescriptions[i].IsTestFunction

\* C2's case: a test file's function whose own name has no test marker is
\* among the test records, and the file of a directory named x_test is not
\* taken for a test file.
C2_Witness ==
    /\ \E i \in DOMAIN testFunctionDescriptions :
           /\ testFunctionDescriptions[i].Name = "helper"
           /\ testFunctionDescriptions[i].Package = "util"
    /\ \E i \in DOMAIN functionDescriptions : functionDescriptions[i].Package = "tool"

\* C3: every ParseFunctions call keeps the three sequences' contents as a
\* prefix, and what a successful call appends is, at the end of
\* FullDescriptions, the report of the file just processed and, at the end
\* of its record list, that file's records in the order of its declarations;
\* a file processed before is appended again.
C3_AppendOnly ==
    [][LET p == calls'[Len(calls')]
           new == Suffix(functionDescriptions', Len(functionDescriptions))
                      \o Suffix(testFunctionDescriptions', Len(testFunctionDescriptions))
       IN calls' # calls =>
            /\ IsPrefix(FullDescriptions, FullDescriptions')
            /\ IsPrefix(functionDescriptions, functionDescriptions')
            /\ IsPrefix(testFunctionDescriptions, testFunctionDescriptions')
            /\ NamesOf(new) = WrittenNames(p)
            /\ \A i \in DOMAIN new : new[i].Package = disk[p.FilePath].pkg
            /\ Succeeds(p) =>
                 /\ Len(FullDescriptions') = Len(FullDescriptions) + 1
                 /\ Contains(FullDescriptions'[Len(FullDescriptions')],
                             "###File path: " \o p.FilePath \o " #######\n"
                             \o "###File name: " \o p.FileName \o " #######\n")]_vars

\* C3's case: the same file processed twice, after another one: its report
\* and its records are in the catalog twice, in call order.
C3_Witness ==
    /\ Len(calls) = 3
    /\ calls[1].FilePath = "math_test.go"
    /\ calls[2] = ParamOf("lib.go")
    /\ calls[3] = ParamOf("lib.go")
    /\ Len(FullDescriptions) = 3
    /\ FullDescriptions[2] = FullDescriptions[3]
    /\ NamesOf(functionDescriptions) = <<"Add", "Get", "Add", "Get">>

\* The files among the first n of goFiles that exist and are well-formed.
OkFiles(n) == SelectSeq(SubSeq(goFiles, 1, n), LAMBDA path : Succeeds(ParamOf(path)))

\* C4: a file that cannot be read or parsed is skipped and the run goes on.
\* While parseFunctions runs, the catalog holds one report for each file
\* processed so far that could be read and parsed, in order, and the records
\* of those files only; it returns after the last file, with N-M reports
\* for N files of which M failed, and with three empty sequences for no
\* file at all.
C4_SkipFailed ==
    LET ok == OkFiles(idx - 1)
        failed == Cardinality({i \in DOMAIN goFiles : ~Succeeds(ParamOf(goFiles[i]))})
    IN /\ Len(FullDescriptions) = Len(ok)
       /\ \A k \in DOMAIN ok :
              Contains(FullDescriptions[k], "###File path: " \o ok[k] \o " #######\n")
       /\ Len(functionDescriptions) + Len(testFunctionDescriptions)
              = Sum([k \in DOMAIN ok |-> Len(Written(ParamOf(ok[k])))])
       /\ pc = "done" =>
              /\ idx = Len(goFiles) + 1
              /\ Len(FullDescriptions) = Len(goFiles) - failed
              /\ Len(goFiles) = 0 => FullDescriptions = <<>>
                                       /\ functionDescriptions = <<>>
                                       /\ testFunctionDescriptions = <<>>

\* C4's case: a run over a malformed file, a file without functions and a
\* file with functions has returned with the reports of the last two.
C4_Witness ==
    /\ pc = "done"
    /\ goFiles = <<"bad.go", "empty.go", "lib.go">>
    /\ Len(FullDescriptions) = 2
    /\ Len(functionDescriptions) = 2

(***************************************************************************)
(* buildFileDescription alone: the declaration read, and the block written *)
(* for it.                                                                 *)
(***************************************************************************)
\* The function declaration of the input file, as written, and its node.
Fn == input.file.funcs[1]
FnNode == input.file.node.Decls[2]

\* The one record built, and the block it holds.
Record == (output[2] \o output[3])[1]
Block == Record.Doc

\* Where t first occurs in s (0: nowhere).
IndexOf(s, t) ==
    LET at == {i \in 1..(Len(s) - Len(t) + 1) : SubSeq(s, i, i + Len(t) - 1) = t}
    IN IF at = {} THEN 0 ELSE CHOOSE i \in at : \A j \in at : i <= j

\* s before, and after, the first occurrence of t, which occurs in s.
Before(s, t) == SubSeq(s, 1, IndexOf(s, t) - 1)
After(s, t) == SubSeq(s, IndexOf(s, t) + Len(t), Len(s))

EndsWith(s, t) == Len(t) <= Len(s) /\ SubSeq(s, Len(s) - Len(t) + 1, Len(s)) = t

RECURSIVE Lines(_)
\* The lines of s, each ended by a line break.
Lines(s) ==
    IF Len(s) = 0 THEN <<>>
    ELSE IF IndexOf(s, "\n") = 0 THEN <<s>>
    ELSE <<Before(s, "\n")>> \o Lines(After(s, "\n"))

CallsLabel == "## Function calls from other packages\n\n'''go\n"
Fence == "'''\n"
Terminator == "'###End of function with name " \o Fn.name \o "  ###'\n\n"

\* What the block holds between the opening and the closing fence of its
\* call section.
CallSection == Before(After(Block, CallsLabel), Fence)

\* C5, as claimed: the call section holds one line per call expression of
\* the function, in pre-order, each the call's source text (behind the
\* section's two-space indent).
C5_OneLinePerCall ==
    pc = "built" => Lines(CallSection) = [i \in DOMAIN Fn.calls |-> "  " \o Fn.calls[i]]

\* C5, amended: the call section is, in pre-order, one entry per call
\* expression of the function: two spaces, the call's exact source text,
\* a line break.  The entry of a call written over several lines has as
\* many lines.
C5_ExactCallText ==
    pc = "built" =>
        /\ Contains(Block, CallsLabel)
        /\ CallSection = Concat([i \in DOMAIN Fn.calls |-> "  " \o Fn.calls[i] \o "\n"])

\* C5's case: a padded call with a call as its argument.
C5_Witness ==
    /\ pc = "built"
    /\ Fn.calls = <<"f( f(x) )", "f(x)">>
    /\ Contains(Block, CallsLabel \o "  f( f(x) )\n  f(x)\n" \o Fence)

\* The rendering C6 claims for a field list: per group the names joined by
\* ", ", a space and the type, or the type alone for a group without
\* names; the groups joined by ", ".
ClaimedFields(fl) ==
    LET group(f) ==
            IF Len(f.Names) = 0 THEN expr(f.Type)
            ELSE Join([i \in DOMAIN f.Names |-> f.Names[i].Name], ", ") \o " " \o expr(f.Type)
    IN Join([i \in DOMAIN fl.List |-> group(fl.List[i])], ", ")

\* C6: the parameter list is rendered with each group as its names joined
\* by ", ", one space and the type, a group without names as the type
\* alone with no leading space, and the groups joined by ", ".
C6_FieldsRendering ==
    pc = "built" =>
        Contains(Block, "##Parameters " \o ClaimedFields(FnNode.Type.Params) \o "\n")

\* The declaration has no receiver, the parameter list () and no results.
Plain == Fn.recv = NilF /\ Fn.params.text = "()" /\ Fn.results = NilF

\* C7, as claimed: the block of a declaration with no receiver, no
\* parameters and no results has no Receiver, no Parameters and no Return
\* label; every block has the call section's label.
C7_NoEmptyLabels ==
    pc = "built" =>
        /\ Contains(Block, CallsLabel)
        /\ Plain => /\ ~Contains(Block, "## Receiver")
                    /\ ~Contains(Block, "##Parameters")
                    /\ ~Contains(Block, "##Return")

\* C7, amended: such a block has no Receiver and no Return label, and has
\* the Parameters label with an empty body, the line "##Parameters ";
\* every block has the call section's label.
C7_EmptyParametersLabel ==
    pc = "built" =>
        /\ Contains(Block, CallsLabel)
        /\ Plain => /\ ~Contains(Block, "## Receiver")
                    /\ Contains(Block, "\n##Parameters \n")
                    /\ ~Contains(Block, "##Return")

\* C7's case: func run() {}, which makes no call.
C7_Witness ==
    /\ pc = "built"
    /\ Plain
    /\ Fn.calls = <<>>
    /\ Contains(Block, "## run\n\n##Parameters \n" \o CallsLabel \o Fence)

\* math_test.go, and nothing else, has been processed.
MathTestProcessed == calls = <<ParamOf("math_test.go")>>

\* C8, as claimed: processing math_test.go yields exactly one record, a
\* test function's, whose Doc holds the comment line, the header naming
\* TestAdd, a Receiver section for t *T and the call line assert(1+1).
C8_ReceiverSection ==
    MathTestProcessed =>
        /\ Len(functionDescriptions \o testFunctionDescriptions) = 1
        /\ LET r == (functionDescriptions \o testFunctionDescriptions)[1]
           IN /\ r.IsTestFunction
              /\ Contains(r.Doc, "// checks addition\n")
              /\ Contains(r.Doc, "## TestAdd\n")
              /\ Contains(r.Doc, "## Receiver\n\nt *T\n")
              /\ Contains(r.Doc, CallsLabel \o "  assert(1+1)\n" \o Fence)

\* C8, amended: the record's Doc holds t *T on its Parameters line, and no
\* Receiver section; the rest as claimed, the record being in the list of
\* test functions.
C8_ParametersLine ==
    MathTestProcessed =>
        /\ functionDescriptions = <<>>
        /\ Len(testFunctionDescriptions) = 1
        /\ LET r == testFunctionDescriptions[1]
           IN /\ r.IsTestFunction
              /\ r.Name = "TestAdd"
              /\ Contains(r.Doc, "// checks addition\n")
              /\ Contains(r.Doc, "## TestAdd\n")
              /\ Contains(r.Doc, "##Parameters t *T\n")
              /\ ~Contains(r.Doc, "## Receiver")
              /\ Contains(r.Doc, CallsLabel \o "  assert(1+1)\n" \o Fence)

\* C8's case: math_test.go processed, and TestAdd's record written.
C8_Witness ==
    /\ MathTestProcessed
    /\ Len(testFunctionDescriptions) = 1
    /\ testFunctionDescriptions[1].Doc =
           "// checks addition\n## TestAdd\n\n##Parameters t *T\n"
           \o CallsLabel \o "  assert(1+1)\n" \o Fence
           \o "'###End of function with name TestAdd  ###'\n\n"

\* C9, as claimed: with IncludeBody the block holds the declaration's
\* source text twice with nothing in between; without, no body section.
C9_AdjacentCopies ==
    pc = "built" =>
        IF input.p.IncludeBody
        THEN Contains(Block, Fn.decl \o Fn.decl)
        ELSE ~Contains(Block, "####Function Body")

\* C9, amended: with IncludeBody the block ends with the call section's
\* closing fence, the body section's label and opening fence, the
\* declaration's source text, a closing fence that starts right after the
\* text's last byte, the text again, and the terminator; without, the
\* terminator follows the call section and the text is not in the block.
C9_FencedThenRaw ==
    pc = "built" =>
        IF input.p.IncludeBody
        THEN EndsWith(Block, CallSection \o Fence
                             \o "####Function Body of function " \o Fn.name \o "\n\n'''go\n"
                             \o Fn.decl \o Fence \o Fn.decl \o Terminator)
        ELSE /\ EndsWith(Block, CallSection \o Fence \o Terminator)
             /\ ~Contains(Block, "####Function Body")
             /\ ~Contains(Block, Fn.decl)

\* C9's case: a documented method that makes a call, body included.
C9_Witness ==
    /\ pc = "built"
    /\ input.p.IncludeBody
    /\ Fn.doc # <<>>
    /\ Fn.recv # NilF
    /\ Fn.calls # <<>>
    /\ Contains(Block, "{\n\tf( k )\n}'''\nfunc (s *Store) Get(")

(***************************************************************************)
(* expr                                                                    *)
(***************************************************************************)
Supported == {"StarExpr", "Ident", "ArrayType", "MapType", "SelectorExpr"}

\* The rule C10 gives for e's variant.
Rule(e) ==
    CASE e.kind = "StarExpr" -> expr(e) = "*" \o expr(e.X)
      [] e.kind = "Ident" -> expr(e) = e.Name
      [] e.kind = "ArrayType" /\ e.Len # Nil ->
            expr(e) = "[" \o expr(e.Len) \o "]" \o expr(e.Elt)
      [] e.kind = "ArrayType" /\ e.Len = Nil -> expr(e) = "[]" \o expr(e.Elt)
      [] e.kind = "MapType" -> expr(e) = "map[" \o expr(e.Key) \o "]" \o expr(e.Value)
      [] e.kind = "SelectorExpr" -> expr(e) = expr(e.X) \o "." \o expr(e.Sel)
      [] OTHER -> expr(e) = ""

\* The source text of e without the text of the unsupported expressions in
\* it.
Erased(code, e) ==
    LET nodes == Inspect(e)
        gone(k) == \E i \in DOMAIN nodes :
                       /\ nodes[i].kind \notin Supported
                       /\ nodes[i].pos <= k
                       /\ k < nodes[i].end
    IN Concat([j \in 1..(e.end - e.pos) |->
                  IF gone(e.pos + j - 1) THEN "" ELSE SubSeq(code, e.pos + j - 1, e.pos + j - 1)])

\* C10: expr renders each of the six variants by its rule, recursively, and
\* an unsupported expression as the empty string where it stands; so the
\* rendering of a type is its gofmt source text less the unsupported
\* expressions in it.  Whatever the types of the signature, the block, the
\* record and the file report are produced.
C10_ExprTotal ==
    pc = "built" =>
        LET nodes == Inspect(FnNode)
        IN /\ \A i \in DOMAIN nodes :
                  nodes[i].kind = "Field" =>
                      LET sub == Inspect(nodes[i].Type)
                      IN /\ \A j \in DOMAIN sub : Rule(sub[j])
                         /\ expr(nodes[i].Type) = Erased(input.file.text, nodes[i].Type)
           /\ Len(output[2] \o output[3]) = 1
           /\ Record.Name = Fn.name
           /\ Contains(Block, "## " \o Fn.name \o "\n\n")
           /\ EndsWith(Block, Terminator)
           /\ Contains(output[1], Block)

\* C10's case: a slice of an unsupported type renders as "[]", and the
\* block is written.
C10_Witness ==
    /\ pc = "built"
    /\ Fn.params.text = "(a, b []interface{})"
    /\ Contains(Block, "##Parameters a, b []\n" \o CallsLabel)
    /\ EndsWith(Block, Terminator)

=============================================================================
